---- MODULE Spec2Model ----
(***************************************************************************)
(* Control plane of the background coding-agent service:                   *)
(*   - scheduler.py : topological_sort / _build_graph / resolve_templates  *)
(*   - api.py       : run_agent_task, run_pipeline_step (job engines),     *)
(*                    run_pipeline_task / _execute_pipeline_steps          *)
(*   - models.py    : job and pipeline-run records, partial updates        *)
(*                                                                         *)
(* Fault model.  Exceptions are raised inside the protected region of a    *)
(* try block: in an attempt by run_agent and by the commit that follows    *)
(* the completed write; in the orchestrator body by the job-row creation   *)
(* and its commit, by resolve_templates, by the reload after a step, and   *)
(* by the commits after the skip writes and after the final write.  Code   *)
(* in an except handler and the straight-line prologue of an engine or of  *)
(* the orchestrator is taken to succeed.                                   *)
(***************************************************************************)
EXTENDS Integers, Sequences, FiniteSets, TLC

\* ------------------------------------------------------------------------
\* Program constants and model bounds
\* ------------------------------------------------------------------------
MAX_ATTEMPTS == 3

RETRY_BASE_DELAY == 10

\* at most this many exceptions are injected in one behaviour
MaxFaults == 3

\* longest depends_on list drawn for topological_sort
MaxDepLen == 2

\* longest text, in pieces, drawn for resolve_templates
MaxTextLen == 2

Names == <<"A", "B", "C">>

NameSet == {Names[i] : i \in 1..Len(Names)}

NULL == "null"

TS == "ts"

\* ------------------------------------------------------------------------
\* Generic helpers
\* ------------------------------------------------------------------------
Range(s) == {s[i] : i \in 1..Len(s)}

RECURSIVE SeqsUpTo(_, _)
SeqsUpTo(S, n) ==
    IF n = 0 THEN {<<>>}
    ELSE LET shorter == SeqsUpTo(S, n - 1)
         IN  shorter \cup {Append(q, x) : q \in shorter, x \in S}

RECURSIVE Flatten(_)
Flatten(ss) == IF ss = <<>> THEN <<>> ELSE Head(ss) \o Flatten(Tail(ss))

IndexOf(s, x) == CHOOSE i \in 1..Len(s) : s[i] = x

\* ------------------------------------------------------------------------
\* scheduler.py : DAG validation and layering
\* ------------------------------------------------------------------------
StepNames(steps) == {steps[i].name : i \in 1..Len(steps)}

\* dict insertion order of {s["name"]: ... for s in steps}
RECURSIVE KeyOrder(_)
KeyOrder(steps) ==
    IF steps = <<>> THEN <<>>
    ELSE LET rest == KeyOrder(SubSeq(steps, 1, Len(steps) - 1))
             n    == steps[Len(steps)].name
         IN  IF n \in Range(rest) THEN rest ELSE Append(rest, n)

\* the (dep, step) pairs in the order the double loop of _build_graph meets them
EdgeList(steps) ==
    Flatten([i \in 1..Len(steps) |->
               [k \in 1..Len(steps[i].depends_on) |->
                  <<steps[i].depends_on[k], steps[i].name>>]])

\* variant of _build_graph that counts one incoming edge for any step that
\* has dependencies
_build_graph_UnitDegree(steps) ==
    LET names == StepNames(steps)
        edges == EdgeList(steps)
    IN  IF \E k \in 1..Len(edges) : edges[k][1] \notin names
        THEN [ok |-> FALSE, err |-> "unknown",
              adjacency |-> <<>>, in_degree |-> <<>>]
        ELSE [ok |-> TRUE, err |-> NULL,
              adjacency |->
                [n \in names |->
                   LET mine == SelectSeq(edges, LAMBDA e : e[1] = n)
                   IN  [k \in 1..Len(mine) |-> mine[k][2]]],
              in_degree |->
                [n \in names |->
                   IF \E k \in 1..Len(edges) : edges[k][2] = n THEN 1 ELSE 0]]

_build_graph(steps) ==
    LET names == StepNames(steps)
        edges == EdgeList(steps)
    IN  IF \E k \in 1..Len(edges) : edges[k][1] \notin names
        THEN [ok |-> FALSE, err |-> "unknown",
              adjacency |-> <<>>, in_degree |-> <<>>]
        ELSE [ok |-> TRUE, err |-> NULL,
              adjacency |->
                [n \in names |->
                   LET mine == SelectSeq(edges, LAMBDA e : e[1] = n)
                   IN  [k \in 1..Len(mine) |-> mine[k][2]]],
              in_degree |->
                [n \in names |->
                   Cardinality({k \in 1..Len(edges) : edges[k][2] = n})]]

\* variant of VisitChildren that queues a child at every decrement
RECURSIVE VisitChildren_AnyDecrement(_, _)
VisitChildren_AnyDecrement(children, acc) ==
    IF children = <<>> THEN acc
    ELSE LET c   == Head(children)
             deg == [acc.in_degree EXCEPT ![c] = @ - 1]
         IN  VisitChildren_AnyDecrement(Tail(children),
                [in_degree  |-> deg,
                 next_queue |-> Append(acc.next_queue, c)])

\* inner loop: for child in adjacency[name]
RECURSIVE VisitChildren(_, _)
VisitChildren(children, acc) ==
    IF children = <<>> THEN acc
    ELSE LET c   == Head(children)
             deg == [acc.in_degree EXCEPT ![c] = @ - 1]
         IN  VisitChildren(Tail(children),
                [in_degree  |-> deg,
                 next_queue |-> IF deg[c] = 0 THEN Append(acc.next_queue, c)
                                ELSE acc.next_queue])

\* for name in layer
RECURSIVE VisitLayer(_, _, _)
VisitLayer(layer, adjacency, acc) ==
    IF layer = <<>> THEN acc
    ELSE VisitLayer(Tail(layer), adjacency,
                    VisitChildren(adjacency[Head(layer)], acc))

\* variant of KahnLoop that emits one step per layer
RECURSIVE KahnLoop_OneByOne(_, _, _, _, _)
KahnLoop_OneByOne(queue, adjacency, in_degree, layers, visited) ==
    IF queue = <<>> THEN [layers |-> layers, visited |-> visited]
    ELSE LET acc == VisitLayer(<<Head(queue)>>, adjacency,
                       [in_degree |-> in_degree, next_queue |-> <<>>])
         IN  KahnLoop_OneByOne(Tail(queue) \o acc.next_queue, adjacency,
                               acc.in_degree, Append(layers, <<Head(queue)>>),
                               visited + 1)

\* variant of KahnLoop that puts each new layer in front of the earlier ones
RECURSIVE KahnLoop_Prepend(_, _, _, _, _)
KahnLoop_Prepend(queue, adjacency, in_degree, layers, visited) ==
    IF queue = <<>> THEN [layers |-> layers, visited |-> visited]
    ELSE LET acc == VisitLayer(queue, adjacency,
                       [in_degree |-> in_degree, next_queue |-> <<>>])
         IN  KahnLoop_Prepend(acc.next_queue, adjacency, acc.in_degree,
                              <<queue>> \o layers, visited + Len(queue))

\* while queue
RECURSIVE KahnLoop(_, _, _, _, _)
KahnLoop(queue, adjacency, in_degree, layers, visited) ==
    IF queue = <<>> THEN [layers |-> layers, visited |-> visited]
    ELSE LET acc == VisitLayer(queue, adjacency,
                       [in_degree |-> in_degree, next_queue |-> <<>>])
         IN  KahnLoop(acc.next_queue, adjacency, acc.in_degree,
                      Append(layers, queue), visited + Len(queue))

\* variant of topological_sort that returns the layers without comparing
\* visited with the number of steps
topological_sort_NoCheck(steps) ==
    LET g == _build_graph(steps)
    IN  IF ~g.ok THEN [ok |-> FALSE, err |-> g.err, layers |-> <<>>]
        ELSE LET order == KeyOrder(steps)
                 queue == SelectSeq(order, LAMBDA n : g.in_degree[n] = 0)
                 r     == KahnLoop(queue, g.adjacency, g.in_degree, <<>>, 0)
             IN  [ok |-> TRUE, err |-> NULL, layers |-> r.layers]

topological_sort(steps) ==
    LET g == _build_graph(steps)
    IN  IF ~g.ok THEN [ok |-> FALSE, err |-> g.err, layers |-> <<>>]
        ELSE LET order == KeyOrder(steps)
                 queue == SelectSeq(order, LAMBDA n : g.in_degree[n] = 0)
                 r     == KahnLoop(queue, g.adjacency, g.in_degree, <<>>, 0)
             IN  IF r.visited # Cardinality(DOMAIN g.in_degree)
                 THEN [ok |-> FALSE, err |-> "cycle", layers |-> <<>>]
                 ELSE [ok |-> TRUE, err |-> NULL, layers |-> r.layers]

\* ------------------------------------------------------------------------
\* scheduler.py : template resolution
\* A text is a sequence of tokens: literal pieces and {{steps.S.output.K}}
\* placeholders.  A value is null, a string (itself a text), a number or a
\* composite (rendered with json.dumps).
\* ------------------------------------------------------------------------
Lit(x) == [t |-> "lit", s |-> x, k |-> ""]

Ph(step, key) == [t |-> "ph", s |-> step, k |-> key]

NullVal == [ty |-> "null", v |-> <<>>]

StrVal(text) == [ty |-> "str", v |-> text]

IntVal(digits) == [ty |-> "int", v |-> <<Lit(digits)>>]

JsonVal(text) == [ty |-> "json", v |-> text]

\* str(value) / json.dumps(value)
Render(value) ==
    IF value.ty = "json" THEN <<Lit("[")>> \o value.v \o <<Lit("]")>>
    ELSE value.v

\* dict.get with a default
DictGet(d, key, default) == IF key \in DOMAIN d THEN d[key] ELSE default

EmptyDict == <<>>

\* variant of _replace that keeps every placeholder
_replace_Keep(tok, step_outputs) == <<tok>>

\* variant of _replace without the "value is None" test
_replace_NoneAsText(tok, step_outputs) ==
    LET output == DictGet(step_outputs, tok.s, EmptyDict)
        value  == DictGet(output, tok.k, NullVal)
    IN  IF value.ty = "null" THEN <<Lit("None")>> ELSE Render(value)

\* def _replace(match): the value's text, or the placeholder when unresolved
_replace(tok, step_outputs) ==
    LET output == DictGet(step_outputs, tok.s, EmptyDict)
        value  == DictGet(output, tok.k, NullVal)
    IN  IF value.ty = "null" THEN <<tok>> ELSE Render(value)

resolve_templates(text, step_outputs) ==
    Flatten([i \in 1..Len(text) |->
               IF text[i].t = "ph" THEN _replace(text[i], step_outputs)
               ELSE <<text[i]>>])

\* ------------------------------------------------------------------------
\* models.py : records and partial updates
\* ------------------------------------------------------------------------
None == <<>>

Some(x) == <<x>>

\* INSERT INTO jobs ... with the schema defaults
\* variant of NewJob whose attempt column starts at 0
NewJob_AttemptZero(step_name, step_index) ==
    [status |-> "queued", attempt |-> 0, max_attempts |-> 3,
     started_at |-> NULL, completed_at |-> NULL,
     error |-> None, logs |-> <<>>, result |-> None, step_output |-> None,
     step_name |-> step_name, step_index |-> step_index]

\* INSERT INTO jobs ... with the schema defaults
NewJob(step_name, step_index) ==
    [status |-> "queued", attempt |-> 1, max_attempts |-> 3,
     started_at |-> NULL, completed_at |-> NULL,
     error |-> None, logs |-> <<>>, result |-> None, step_output |-> None,
     step_name |-> step_name, step_index |-> step_index]

\* INSERT INTO pipeline_runs ... with the schema defaults
NewRun == [status |-> "pending", started_at |-> NULL, completed_at |-> NULL,
           error |-> None]

\* UPDATE ... SET k = ? for the named fields only
Merge(fields, rec) ==
    [k \in DOMAIN rec |-> IF k \in DOMAIN fields THEN fields[k] ELSE rec[k]]

\* update_job: a row that does not exist is left absent
update_job(js, job_id, fields) ==
    IF job_id \in DOMAIN js THEN [js EXCEPT ![job_id] = Merge(fields, @)]
    ELSE js

update_pipeline_run(r, fields) == Merge(fields, r)

Terminal == {"completed", "failed"}

\* str(exc)[:500]
Truncate(exc) == [msg |-> exc.msg, len |-> IF exc.len > 500 THEN 500 ELSE exc.len]

\* the exception raised at a call site
ExcAt(site) ==
    [msg |-> site, len |-> IF site \in {"agent", "resolve"} THEN 600 ELSE 20]

ErrText(prefix, e) == [prefix |-> prefix, msg |-> e.msg, len |-> e.len]

\* ------------------------------------------------------------------------
\* State
\* ------------------------------------------------------------------------
VARIABLES
    scenario,   \* which request this deployment receives: "submit" or "run"
    steps,      \* steps of the stored pipeline (empty when there is none)
    jobs,       \* jobs table as last written, job_id -> record
    runs,       \* pipeline_runs table as last written, run_id -> record
    vol,        \* committed state of the volume, what a reload imports
    eng,        \* job_id -> frame of the job engine working on it
    orch,       \* frame of run_pipeline_task / _execute_pipeline_steps
    faults,     \* exceptions injected so far
    jhist,      \* job_id -> status values written to the record, in order
    rhist,      \* status values written to the run record, in order
    tsteps,     \* topological_sort under test: argument
    tresult,    \* topological_sort under test: outcome
    targs,      \* resolve_templates under test: text and step_outputs
    tout,       \* resolve_templates under test: texts returned, in order
    ws,         \* frame of one ws_job handler and the frames it has sent
    req,        \* the server's API_KEY and the secret carried by the request
    ctr         \* container -> its position and its mounted copy of the jobs table

vars == <<scenario, steps, jobs, runs, vol, eng, orch, faults, jhist, rhist,
          tsteps, tresult, targs, tout, ws, req, ctr>>

NoArgs == [text |-> <<>>, step_outputs |-> EmptyDict]

JobIds == {"J"} \cup NameSet

\* no API_KEY in the server's environment, no secret in the request
NoContainers == <<>>

NoReq == [api_key |-> None, secret |-> None]

\* ws_job before websocket.accept(): last_status = None, last_log_count = 0
\* frames: the frames sent; seen, http_seen: the statuses read by the handler
\* and by GET /status; sent_logs: the logs read when the last update was sent;
\* result: the last answer of GET /result
WsIdle == [pc |-> "none", job_id |-> "J", last_status |-> NULL,
           last_log_count |-> 0, frames |-> <<>>,
           seen |-> <<>>, http_seen |-> <<>>, sent_logs |-> <<>>,
           result |-> None]

RunId == "R"

EngIdle ==
    [pc |-> "idle", kind |-> "", step_name |-> "", attempt |-> 0,
     all_logs |-> <<>>, last_error |-> None, task |-> <<>>,
     upstream |-> EmptyDict, skip_clone |-> FALSE, result |-> None,
     ret |-> None, exc |-> None, slept |-> <<>>]

OrchIdle ==
    [pc |-> "idle", layers |-> <<>>, li |-> 1, si |-> 1,
     job_ids |-> EmptyDict, step_outputs |-> EmptyDict, failed |-> FALSE,
     is_first_step |-> TRUE, exc |-> None]

FaultChoices == IF faults < MaxFaults THEN BOOLEAN ELSE {FALSE}

\* db_volume.commit()
Committed(js, rs) == [jobs |-> js, runs |-> rs]

\* a write of fields to a job row, with the status trail kept beside it
W(st, job_id, fields) ==
    [jobs  |-> update_job(st.jobs, job_id, fields),
     jhist |-> IF job_id \in DOMAIN st.jobs /\ "status" \in DOMAIN fields
               THEN [st.jhist EXCEPT ![job_id] = Append(@, fields.status)]
               ELSE st.jhist]

Db == [jobs |-> jobs, jhist |-> jhist]

\* ------------------------------------------------------------------------
\* Pipelines a deployment can hold: accepted by POST /pipelines
\* ------------------------------------------------------------------------
\* the task of a step refers to the output of each step it depends on
TaskOf(name, deps) ==
    <<Lit(name)>> \o [k \in 1..Len(deps) |-> Ph(deps[k], "key")]

StepDef(name, deps, on_failure) ==
    [name |-> name, task |-> TaskOf(name, deps), depends_on |-> deps,
     on_failure |-> on_failure]

\* ascending sequence of the members of a set of names
RECURSIVE SortedSeq(_)
SortedSeq(S) ==
    IF S = {} THEN <<>>
    ELSE LET i == CHOOSE i \in 1..Len(Names) :
                    Names[i] \in S /\ \A j \in 1..Len(Names) : Names[j] \in S => i <= j
         IN  <<Names[i]>> \o SortedSeq(S \ {Names[i]})

Policies == {"stop", "continue"}

\* dependency shapes of the pipelines that are run: one and two steps in
\* every arrangement, and the chain, the fork and the join of three steps
Shapes ==
    { <<{}>>,
      <<{}, {}>>,
      <<{}, {"A"}>>,
      <<{}, {"A"}, {"B"}>>,
      <<{}, {"A"}, {"A"}>>,
      <<{}, {}, {"A", "B"}>> }

\* ep_create_pipeline stores only step lists that topological_sort accepts
StoredPipelines ==
    {sl \in {[i \in 1..Len(d) |-> StepDef(Names[i], SortedSeq(d[i]), p[i])] :
               d \in Shapes, p \in [1..Len(Names) -> Policies]} :
        topological_sort(sl).ok}

\* ------------------------------------------------------------------------
\* shared.py : what run_agent can return
\* ------------------------------------------------------------------------
LogLine(attempt, m, delay) == [a |-> attempt, m |-> m, d |-> delay]

\* step_output is the parsed result file ("key": it holds {"key": "v1"},
\* "empty": it holds {}), or {pr_url, exit_code} when there is no file
AgentResult(exit_code, file) ==
    [exit_code |-> exit_code, pr_url |-> NULL,
     log_lines |-> <<LogLine(0, "agent output", 0)>>,
     step_output |->
        IF file = "key" THEN ("key" :> StrVal(<<Lit("v1")>>))
        ELSE IF file = "empty" THEN EmptyDict
        ELSE ("pr_url" :> NullVal @@
              "exit_code" :> IntVal(IF exit_code = 0 THEN "0" ELSE "1"))]

\* the runs considered: a clean exit that wrote {"key": "v1"}, and a
\* non-zero exit that left an empty result object
AgentResults == {AgentResult(0, "key"), AgentResult(1, "empty")}

\* ------------------------------------------------------------------------
\* api.py : the job engines run_agent_task (kind "task") and
\*          run_pipeline_step (kind "step")
\* ------------------------------------------------------------------------
Pow2(n) == IF n = 0 THEN 1 ELSE IF n = 1 THEN 2 ELSE 4

\* variant of RetryDelay whose exponent is the attempt itself
RetryDelay_FromAttempt(attempt) == RETRY_BASE_DELAY * Pow2(attempt)

\* delay = RETRY_BASE_DELAY * (2 ** (attempt - 1))
RetryDelay(attempt) == RETRY_BASE_DELAY * Pow2(attempt - 1)

\* text before the last error in the record of an exhausted job
ExhaustedPrefix(kind) ==
    IF kind = "task" THEN "All 3 attempts failed. Last error: "
    ELSE "All 3 attempts failed. Last: "

EngUnchanged == UNCHANGED <<scenario, steps, runs, orch, rhist, tsteps, tresult,
                             targs, tout, ws, req, ctr>>

\* prologue: reload, get_job, status running, commit
EngineStart(j) ==
    /\ eng[j].pc = "start"
    /\ IF j \notin DOMAIN vol.jobs
       THEN /\ eng' = [eng EXCEPT ![j].pc = "raised",
                                  ![j].exc = Some(ExcAt("not found"))]
            /\ UNCHANGED <<jobs, jhist, vol>>
       ELSE LET st == W(Db, j, [status |-> "running", started_at |-> TS])
            IN  /\ jobs' = st.jobs
                /\ jhist' = st.jhist
                /\ vol' = Committed(st.jobs, runs)
                /\ eng' = [eng EXCEPT ![j].pc = "auth", ![j].attempt = 1]
    /\ UNCHANGED faults
    /\ EngUnchanged

\* update_job(attempt=attempt, logs=all_logs); setup_github_auth(token)
AttemptAuth(j) ==
    /\ eng[j].pc = "auth"
    /\ LET logs == Append(eng[j].all_logs, LogLine(eng[j].attempt, "auth", 0))
           st   == W(Db, j, [attempt |-> eng[j].attempt, logs |-> logs])
       IN  /\ jobs' = st.jobs
           /\ jhist' = st.jhist
           /\ eng' = [eng EXCEPT ![j].pc = "clone", ![j].all_logs = logs]
    /\ UNCHANGED <<vol, faults>>
    /\ EngUnchanged

\* update_job(logs=all_logs); clone_and_install(repo_url)
AttemptClone(j) ==
    /\ eng[j].pc = "clone"
    /\ LET logs == Append(eng[j].all_logs, LogLine(eng[j].attempt, "clone", 0))
           st   == W(Db, j, [logs |-> logs])
       IN  /\ jobs' = st.jobs
           /\ jhist' = st.jhist
           /\ eng' = [eng EXCEPT ![j].pc = "agent", ![j].all_logs = logs]
    /\ UNCHANGED <<vol, faults>>
    /\ EngUnchanged

\* update_job(logs=all_logs); result = run_agent(task), which returns a
\* result or raises (a timeout of the child; the exceptions of the calls
\* before it reach the same handler and are raised here)
AttemptAgent(j) ==
    /\ eng[j].pc = "agent"
    /\ LET logs == Append(eng[j].all_logs, LogLine(eng[j].attempt, "agent", 0))
           st   == W(Db, j, [logs |-> logs])
       IN  /\ jobs' = st.jobs
           /\ jhist' = st.jhist
           /\ \E fault \in FaultChoices :
                IF fault
                THEN /\ eng' = [eng EXCEPT ![j].pc = "except",
                                           ![j].all_logs = logs,
                                           ![j].exc = Some(ExcAt("agent"))]
                     /\ faults' = faults + 1
                ELSE /\ \E r \in AgentResults :
                          eng' = [eng EXCEPT ![j].pc = "complete",
                                             ![j].all_logs = logs,
                                             ![j].result = Some(r)]
                     /\ faults' = faults
    /\ UNCHANGED vol
    /\ EngUnchanged

\* variant of CompletedFields that reports a clean exit whatever the child did
CompletedFields_ExitZero(e, logs) ==
    LET r == e.result[1]
    IN  [status |-> "completed", completed_at |-> TS, attempt |-> e.attempt,
         result |-> Some([exit_code |-> 0, pr_url |-> r.pr_url]),
         logs |-> logs]
        @@ (IF e.kind = "step" THEN [step_output |-> Some(r.step_output)]
            ELSE <<>>)

\* variant of CompletedFields that clears the error of the earlier attempts
CompletedFields_ClearsError(e, logs) ==
    LET r == e.result[1]
    IN  [status |-> "completed", completed_at |-> TS, attempt |-> e.attempt,
         result |-> Some([exit_code |-> r.exit_code, pr_url |-> r.pr_url]),
         error |-> None,
         logs |-> logs]
        @@ (IF e.kind = "step" THEN [step_output |-> Some(r.step_output)]
            ELSE <<>>)

\* variant of CompletedFields that stores an empty log sequence
CompletedFields_NoLogs(e, logs) ==
    LET r == e.result[1]
    IN  [status |-> "completed", completed_at |-> TS, attempt |-> e.attempt,
         result |-> Some([exit_code |-> r.exit_code, pr_url |-> r.pr_url]),
         logs |-> <<>>]
        @@ (IF e.kind = "step" THEN [step_output |-> Some(r.step_output)]
            ELSE <<>>)

\* variant of CompletedFields that stores the agent's lines only
CompletedFields_OwnLogs(e, logs) ==
    LET r == e.result[1]
    IN  [status |-> "completed", completed_at |-> TS, attempt |-> e.attempt,
         result |-> Some([exit_code |-> r.exit_code, pr_url |-> r.pr_url]),
         logs |-> r.log_lines]
        @@ (IF e.kind = "step" THEN [step_output |-> Some(r.step_output)]
            ELSE <<>>)

\* the fields of the completed write
CompletedFields(e, logs) ==
    LET r == e.result[1]
    IN  [status |-> "completed", completed_at |-> TS, attempt |-> e.attempt,
         result |-> Some([exit_code |-> r.exit_code, pr_url |-> r.pr_url]),
         logs |-> logs]
        @@ (IF e.kind = "step" THEN [step_output |-> Some(r.step_output)]
            ELSE <<>>)

\* all_logs.extend; update_job(status="completed", ...); commit; return
AttemptComplete(j) ==
    /\ eng[j].pc = "complete"
    /\ LET logs == eng[j].all_logs \o eng[j].result[1].log_lines
           st   == W(Db, j, CompletedFields(eng[j], logs))
       IN  /\ jobs' = st.jobs
           /\ jhist' = st.jhist
           /\ \E fault \in FaultChoices :
                IF fault
                THEN \* the commit raises, with the data published or not
                     /\ \E published \in BOOLEAN :
                          vol' = IF published THEN Committed(st.jobs, runs)
                                 ELSE vol
                     /\ eng' = [eng EXCEPT ![j].pc = "except",
                                           ![j].all_logs = logs,
                                           ![j].exc = Some(ExcAt("commit"))]
                     /\ faults' = faults + 1
                ELSE /\ vol' = Committed(st.jobs, runs)
                     /\ eng' = [eng EXCEPT
                                  ![j].pc = "returned",
                                  ![j].all_logs = logs,
                                  ![j].ret = Some(eng[j].result[1].step_output)]
                     /\ faults' = faults
    /\ EngUnchanged

\* variant of ShouldRetry that gives up after the second attempt
ShouldRetry_Once(attempt) == attempt < 2

\* if attempt < MAX_ATTEMPTS
ShouldRetry(attempt) == attempt < MAX_ATTEMPTS

\* except Exception as exc: retry with backoff, or give up and re-raise
HandleException(j) ==
    /\ eng[j].pc = "except"
    /\ LET e         == eng[j]
           error_msg == Truncate(e.exc[1])
           retry     == ShouldRetry(e.attempt)
           delay     == RetryDelay(e.attempt)
           logs      == Append(e.all_logs,
                               IF retry THEN LogLine(e.attempt, "retrying", delay)
                               ELSE LogLine(e.attempt, "failed", 0))
           st        == IF retry
                        THEN W(Db, j, [status |-> "retrying",
                                       attempt |-> e.attempt,
                                       error |-> Some(ErrText("", error_msg)),
                                       logs |-> logs])
                        ELSE W(Db, j, [status |-> "failed",
                                       completed_at |-> TS,
                                       attempt |-> e.attempt,
                                       error |-> Some(ErrText(ExhaustedPrefix(e.kind),
                                                              error_msg)),
                                       logs |-> logs])
       IN  /\ jobs' = st.jobs
           /\ jhist' = st.jhist
           /\ vol' = Committed(st.jobs, runs)
           /\ eng' = [eng EXCEPT
                        ![j].all_logs = logs,
                        ![j].last_error = e.exc,
                        ![j].slept = IF retry THEN Append(@, delay) ELSE @,
                        ![j].attempt = IF retry THEN @ + 1 ELSE @,
                        ![j].pc = IF retry THEN "auth" ELSE "raised"]
    /\ UNCHANGED faults
    /\ EngUnchanged

\* ------------------------------------------------------------------------
\* api.py : write endpoints
\* ------------------------------------------------------------------------
\* variant of ep_submit that spawns the engine without committing the row
ep_submit_NoCommit ==
    /\ scenario = "submit"
    /\ "J" \notin DOMAIN jobs
    /\ jobs' = jobs @@ ("J" :> NewJob(NULL, 0))
    /\ jhist' = [jhist EXCEPT !["J"] = <<"queued">>]
    /\ eng' = [eng EXCEPT !["J"] = [EngIdle EXCEPT !.pc = "start",
                                                   !.kind = "task"]]
    /\ UNCHANGED <<scenario, steps, runs, vol, orch, faults, rhist, tsteps,
                   tresult, targs, tout, ws, req, ctr>>

\* POST /submit: create_job, commit, run_agent_task.spawn
ep_submit ==
    /\ scenario = "submit"
    /\ "J" \notin DOMAIN jobs
    /\ jobs' = jobs @@ ("J" :> NewJob(NULL, 0))
    /\ jhist' = [jhist EXCEPT !["J"] = <<"queued">>]
    /\ vol' = Committed(jobs', runs)
    /\ eng' = [eng EXCEPT !["J"] = [EngIdle EXCEPT !.pc = "start",
                                                   !.kind = "task"]]
    /\ UNCHANGED <<scenario, steps, runs, orch, faults, rhist, tsteps, tresult,
                             targs, tout, ws, req, ctr>>

\* POST /pipelines/{id}/run: create_pipeline_run, commit, run_pipeline_task.spawn
ep_run_pipeline ==
    /\ scenario = "run"
    /\ RunId \notin DOMAIN runs
    /\ runs' = runs @@ (RunId :> NewRun)
    /\ rhist' = <<"pending">>
    /\ vol' = Committed(jobs, runs')
    /\ orch' = [OrchIdle EXCEPT !.pc = "start"]
    /\ UNCHANGED <<scenario, steps, jobs, eng, faults, jhist, tsteps, tresult,
                   targs, tout, ws, req, ctr>>

\* ------------------------------------------------------------------------
\* api.py : run_pipeline_task and _execute_pipeline_steps
\* ------------------------------------------------------------------------
RunErr(prefix, step, e) ==
    [prefix |-> prefix, step |-> step, msg |-> e.msg, len |-> e.len]

\* a write to the run row, with the status trail kept beside it
WR(st, fields) ==
    [runs  |-> [st.runs EXCEPT ![RunId] = update_pipeline_run(@, fields)],
     rhist |-> IF "status" \in DOMAIN fields
               THEN Append(st.rhist, fields.status) ELSE st.rhist]

RunDb == [runs |-> runs, rhist |-> rhist]

\* for idx, step in enumerate(steps): create_job(...), for the first k steps
RECURSIVE CreateJobs(_, _)
CreateJobs(st, k) ==
    IF k = 0 THEN st
    ELSE LET prev == CreateJobs(st, k - 1)
             name == steps[k].name
         IN  [jobs  |-> prev.jobs @@ (name :> NewJob(name, k - 1)),
              jhist |-> [prev.jhist EXCEPT ![name] = <<"queued">>]]

OrchUnchanged == UNCHANGED <<scenario, steps, tsteps, tresult, targs, tout, ws,
    req, ctr>>

\* update run to running, layer the steps, create the job rows, commit
ExecStart ==
    /\ orch.pc = "start"
    /\ LET rs == WR(RunDb, [status |-> "running", started_at |-> TS])
           ts == topological_sort(steps)
       IN  /\ runs' = rs.runs
           /\ rhist' = rs.rhist
           /\ \E fault \in FaultChoices :
                IF fault \/ ~ts.ok
                THEN \* an exception after k job rows have been inserted
                     \E k \in 0..(IF ts.ok THEN Len(steps) ELSE 0) :
                       LET st == CreateJobs(Db, k)
                       IN  /\ jobs' = st.jobs
                           /\ jhist' = st.jhist
                           /\ orch' = [orch EXCEPT
                                  !.pc = "catch",
                                  !.exc = Some(ExcAt(IF ts.ok THEN "crash"
                                                     ELSE ts.err))]
                           /\ faults' = IF fault THEN faults + 1 ELSE faults
                           /\ UNCHANGED vol
                ELSE LET st == CreateJobs(Db, Len(steps))
                     IN  /\ jobs' = st.jobs
                         /\ jhist' = st.jhist
                         /\ vol' = Committed(st.jobs, rs.runs)
                         /\ orch' = [orch EXCEPT
                                !.pc = "layer",
                                !.layers = ts.layers,
                                !.job_ids = [n \in StepNames(steps) |-> n]]
                         /\ faults' = faults
    /\ UNCHANGED eng
    /\ OrchUnchanged

\* variant of SkipWrites that marks the jobs of every step of the run, not
\* only those of the layer
RECURSIVE SkipEvery(_, _, _)
SkipEvery(st, names, job_ids) ==
    IF names = <<>> THEN st
    ELSE LET jid  == DictGet(job_ids, Head(names), NULL)
             next == IF jid # NULL
                     THEN W(st, jid,
                            [status |-> "failed",
                             error |-> Some(ErrText("Skipped: upstream step failed",
                                                    [msg |-> "", len |-> 0])),
                             completed_at |-> TS])
                     ELSE st
         IN  SkipEvery(next, Tail(names), job_ids)

SkipWrites_EveryStep(st, layer, job_ids) == SkipEvery(st, KeyOrder(steps), job_ids)

\* variant of SkipWrites that also stamps started_at
RECURSIVE SkipWrites_Stamped(_, _, _)
SkipWrites_Stamped(st, layer, job_ids) ==
    IF layer = <<>> THEN st
    ELSE LET jid  == DictGet(job_ids, Head(layer), NULL)
             next == IF jid # NULL
                     THEN W(st, jid,
                            [status |-> "failed", started_at |-> TS,
                             error |-> Some(ErrText("Skipped: upstream step failed",
                                                    [msg |-> "", len |-> 0])),
                             completed_at |-> TS])
                     ELSE st
         IN  SkipWrites_Stamped(next, Tail(layer), job_ids)

\* variant of SkipWrites that leaves the layer's job rows as they are
SkipWrites_None(st, layer, job_ids) == st

\* for step_name in layer: update_job(jid, status="failed", error="Skipped...")
RECURSIVE SkipWrites(_, _, _)
SkipWrites(st, layer, job_ids) ==
    IF layer = <<>> THEN st
    ELSE LET jid  == DictGet(job_ids, Head(layer), NULL)
             next == IF jid # NULL
                     THEN W(st, jid,
                            [status |-> "failed",
                             error |-> Some(ErrText("Skipped: upstream step failed",
                                                    [msg |-> "", len |-> 0])),
                             completed_at |-> TS])
                     ELSE st
         IN  SkipWrites(next, Tail(layer), job_ids)

\* if failed: mark the layer's jobs skipped, commit, continue
ExecSkipLayer ==
    /\ orch.pc = "layer"
    /\ orch.li <= Len(orch.layers)
    /\ orch.failed
    /\ LET st == SkipWrites(Db, orch.layers[orch.li], orch.job_ids)
       IN  /\ jobs' = st.jobs
           /\ jhist' = st.jhist
           /\ \E fault \in FaultChoices :
                IF fault
                THEN /\ orch' = [orch EXCEPT !.pc = "catch",
                                             !.exc = Some(ExcAt("commit"))]
                     /\ faults' = faults + 1
                     /\ UNCHANGED vol
                ELSE /\ orch' = [orch EXCEPT !.li = @ + 1, !.si = 1]
                     /\ vol' = Committed(st.jobs, runs)
                     /\ faults' = faults
    /\ UNCHANGED <<runs, rhist, eng>>
    /\ OrchUnchanged

StepMap == [n \in StepNames(steps) |-> steps[IndexOf(KeyOrder(steps), n)]]

CurrentStep == orch.layers[orch.li][orch.si]

\* variant of SkipClone that asks every step for a fresh clone
SkipClone_Never(is_first_step) == FALSE

\* skip_clone=not is_first_step
SkipClone(is_first_step) == ~is_first_step

\* position of the next step of the current layer, or of the next layer
Advance(o) ==
    IF o.si < Len(o.layers[o.li]) THEN [o EXCEPT !.si = @ + 1]
    ELSE [o EXCEPT !.li = @ + 1, !.si = 1]

\* variant of Remote that starts the invocation and moves on to the next step
Remote_Spawn(o) == Advance(o)

\* run_pipeline_step.remote(...): the caller blocks until the invocation has
\* returned or raised
Remote(o) == [o EXCEPT !.pc = "wait"]

\* resolve the task, build step_context, run_pipeline_step.remote(...)
ExecDispatch ==
    /\ orch.pc = "layer"
    /\ orch.li <= Len(orch.layers)
    /\ ~orch.failed
    /\ LET step_name == CurrentStep
           step_def  == StepMap[step_name]
           jid       == orch.job_ids[step_name]
       IN  \E fault \in FaultChoices :
             IF fault
             THEN /\ orch' = [orch EXCEPT !.pc = "catch",
                                          !.exc = Some(ExcAt("resolve"))]
                  /\ faults' = faults + 1
                  /\ UNCHANGED eng
             ELSE /\ eng' = [eng EXCEPT ![jid] =
                               [EngIdle EXCEPT
                                  !.pc = "start",
                                  !.kind = "step",
                                  !.step_name = step_name,
                                  !.task = resolve_templates(step_def.task,
                                                             orch.step_outputs),
                                  !.upstream = orch.step_outputs,
                                  !.skip_clone = SkipClone(orch.is_first_step)]]
                  /\ orch' = Remote(orch)
                  /\ faults' = faults
    /\ UNCHANGED <<jobs, jhist, runs, rhist, vol>>
    /\ OrchUnchanged

\* variant of OnFailure that stops at every failure
OnFailure_AlwaysStop(step_def) == "stop"

\* on_failure = step_def.get("on_failure", "stop")
OnFailure(step_def) ==
    IF "on_failure" \in DOMAIN step_def THEN step_def.on_failure ELSE "stop"

\* after the remote call: record the output, or handle the exception
ExecStepResult ==
    /\ orch.pc = "wait"
    /\ LET step_name  == CurrentStep
           jid        == orch.job_ids[step_name]
           on_failure == OnFailure(StepMap[step_name])
           returned   == eng[jid].pc = "returned"
           first      == IF returned THEN FALSE ELSE orch.is_first_step
           \* except Exception as exc
           Failed(exc) ==
             LET outs == (step_name :>
                            ("error" :> StrVal(<<Lit(Truncate(exc).msg)>>)))
                         @@ orch.step_outputs
             IN  IF on_failure = "stop"
                 THEN LET rs == WR(RunDb,
                                   [error |-> Some(RunErr("Step failed: ",
                                                          step_name,
                                                          Truncate(exc)))])
                      IN  /\ runs' = rs.runs
                          /\ rhist' = rs.rhist
                          /\ vol' = Committed(jobs, rs.runs)
                          /\ orch' = [orch EXCEPT !.pc = "layer",
                                                  !.step_outputs = outs,
                                                  !.failed = TRUE,
                                                  !.is_first_step = first,
                                                  !.li = @ + 1, !.si = 1]
                 ELSE /\ orch' = Advance([orch EXCEPT !.pc = "layer",
                                                      !.step_outputs = outs,
                                                      !.is_first_step = first])
                      /\ UNCHANGED <<runs, rhist, vol>>
       IN  /\ eng[jid].pc \in {"returned", "raised"}
           /\ IF ~returned
              THEN Failed(eng[jid].exc[1]) /\ faults' = faults
              ELSE \E fault \in FaultChoices :
                     IF fault
                     THEN \* db_volume.reload() raises
                          Failed(ExcAt("reload")) /\ faults' = faults + 1
                     ELSE LET step_result == eng[jid].ret[1]
                              outs == (step_name :>
                                         (IF DOMAIN step_result # {}
                                          THEN step_result
                                          ELSE ("exit_code" :> IntVal("0"))))
                                      @@ orch.step_outputs
                          IN  /\ faults' = faults
                              /\ IF jid \in DOMAIN vol.jobs
                                    /\ vol.jobs[jid].status = "failed"
                                 THEN Failed([msg |-> "job failed", len |-> 10])
                                 ELSE /\ orch' = Advance(
                                            [orch EXCEPT !.pc = "layer",
                                                         !.step_outputs = outs,
                                                         !.is_first_step = FALSE])
                                      /\ UNCHANGED <<runs, rhist, vol>>
    /\ UNCHANGED <<jobs, jhist, eng>>
    /\ OrchUnchanged

\* final_status = "failed" if failed else "completed"; update; commit
ExecFinalize ==
    /\ orch.pc = "layer"
    /\ orch.li > Len(orch.layers)
    /\ LET final_status == IF orch.failed THEN "failed" ELSE "completed"
           rs == WR(RunDb, [status |-> final_status, completed_at |-> TS])
       IN  /\ runs' = rs.runs
           /\ rhist' = rs.rhist
           /\ \E fault \in FaultChoices :
                IF fault
                THEN /\ orch' = [orch EXCEPT !.pc = "catch",
                                             !.exc = Some(ExcAt("commit"))]
                     /\ faults' = faults + 1
                     /\ UNCHANGED vol
                ELSE /\ orch' = [orch EXCEPT !.pc = "done"]
                     /\ vol' = Committed(jobs, rs.runs)
                     /\ faults' = faults
    /\ UNCHANGED <<jobs, jhist, eng>>
    /\ OrchUnchanged

\* variant of CrashFields that leaves completed_at unset
CrashFields_NoStamp(exc) ==
    [status |-> "failed",
     error |-> Some(RunErr("Pipeline crashed: ", "", Truncate(exc)))]

\* status="failed", completed_at=now_iso(), error=f"Pipeline crashed: ..."
CrashFields(exc) ==
    [status |-> "failed", completed_at |-> TS,
     error |-> Some(RunErr("Pipeline crashed: ", "", Truncate(exc)))]

\* variant of CatchAll that re-raises without writing to the run row
CatchAll_Reraise ==
    /\ orch.pc = "catch"
    /\ orch' = [orch EXCEPT !.pc = "crashed"]
    /\ UNCHANGED <<jobs, jhist, eng, faults, runs, rhist, vol>>
    /\ OrchUnchanged

\* run_pipeline_task: except Exception: mark the run failed, commit, raise
CatchAll ==
    /\ orch.pc = "catch"
    /\ LET rs == WR(RunDb, CrashFields(orch.exc[1]))
       IN  /\ runs' = rs.runs
           /\ rhist' = rs.rhist
           /\ vol' = Committed(jobs, rs.runs)
           /\ orch' = [orch EXCEPT !.pc = "crashed"]
    /\ UNCHANGED <<jobs, jhist, eng, faults>>
    /\ OrchUnchanged

\* ------------------------------------------------------------------------
\* Specification of the service
\* ------------------------------------------------------------------------
Init ==
    /\ scenario \in {"submit", "run"}
    /\ steps \in (IF scenario = "run" THEN StoredPipelines ELSE {<<>>})
    /\ jobs = EmptyDict
    /\ runs = EmptyDict
    /\ vol = Committed(EmptyDict, EmptyDict)
    /\ eng = [j \in JobIds |-> EngIdle]
    /\ orch = OrchIdle
    /\ faults = 0
    /\ jhist = [j \in JobIds |-> <<>>]
    /\ rhist = <<>>
    /\ tsteps = <<>>
    /\ tresult = None
    /\ targs = NoArgs
    /\ tout = <<>>
    /\ ws = WsIdle
    /\ req = NoReq
    /\ ctr = NoContainers

Engine(j) ==
    \/ EngineStart(j)
    \/ AttemptAuth(j)
    \/ AttemptClone(j)
    \/ AttemptAgent(j)
    \/ AttemptComplete(j)
    \/ HandleException(j)

Next ==
    \/ ep_submit
    \/ ep_run_pipeline
    \/ \E j \in JobIds : Engine(j)
    \/ ExecStart
    \/ ExecSkipLayer
    \/ ExecDispatch
    \/ ExecStepResult
    \/ ExecFinalize
    \/ CatchAll

Spec == Init /\ [][Next]_vars

\* the runs followed to their end: a standalone job, or a run of a stored
\* pipeline of one or two steps (one layer of two steps, or two layers)
FairInit == Init /\ Len(steps) <= 2

\* every spawned function is scheduled until it returns or raises
FairSpec == FairInit /\ [][Next]_vars /\ WF_vars(Next)

\* ------------------------------------------------------------------------
\* Specification of POST /pipelines as a function of the request's step list
\* ------------------------------------------------------------------------
\* variant of DuplicateAt whose set of seen names is never added to
DuplicateAt_NeverSeen(sl) == 0

\* for i, step in enumerate(steps): if step["name"] in seen_names: the
\* (1-based) position of the first repeated name, 0 if none
DuplicateAt(sl) ==
    LET dups == {i \in 1..Len(sl) : \E k \in 1..(i - 1) : sl[k].name = sl[i].name}
    IN  IF dups = {} THEN 0
        ELSE CHOOSE i \in dups : \A k \in dups : i <= k

Response(code, error) == [code |-> code, error |-> error]

\* POST /pipelines: validate the steps, create_pipeline, commit
ep_create_pipeline ==
    /\ scenario = "create"
    /\ tresult = None
    /\ LET ts == topological_sort(tsteps)
       IN  IF tsteps = <<>>
           THEN tresult' = Some(Response(400, "required")) /\ steps' = steps
           ELSE IF DuplicateAt(tsteps) # 0
           THEN tresult' = Some(Response(400, "duplicate")) /\ steps' = steps
           ELSE IF ~ts.ok
           THEN tresult' = Some(Response(400, ts.err)) /\ steps' = steps
           ELSE tresult' = Some(Response(200, NULL)) /\ steps' = tsteps
    /\ UNCHANGED <<scenario, jobs, runs, vol, eng, orch, faults,
                   jhist, rhist, tsteps, targs, tout, ws, req, ctr>>

\* the request carries up to three steps, with any names and any depends_on
CreateInit ==
    /\ scenario = "create"
    /\ steps = <<>>
    /\ jobs = EmptyDict
    /\ runs = EmptyDict
    /\ vol = Committed(EmptyDict, EmptyDict)
    /\ eng = [j \in JobIds |-> EngIdle]
    /\ orch = OrchIdle
    /\ faults = 0
    /\ jhist = [j \in JobIds |-> <<>>]
    /\ rhist = <<>>
    /\ \E n \in 0..Len(Names) :
         \E nm \in [1..n -> NameSet] :
           \E d \in [1..n -> SeqsUpTo(NameSet, MaxDepLen)] :
             tsteps = [i \in 1..n |->
                         [name |-> nm[i], task |-> <<>>,
                          depends_on |-> d[i], on_failure |-> "stop"]]
    /\ tresult = None
    /\ targs = NoArgs
    /\ tout = <<>>
    /\ ws = WsIdle
    /\ req = NoReq
    /\ ctr = NoContainers

CreateNext == ep_create_pipeline

CreateSpec == CreateInit /\ [][CreateNext]_vars

\* ------------------------------------------------------------------------
\* Specification of POST /pipelines/{id}/run as a function of the pipeline
\* row it reads: the row holds a step list that topological_sort refuses
\* ------------------------------------------------------------------------
AdmitInit ==
    /\ scenario = "run"
    /\ \E n \in 1..Len(Names) :
         \E d \in [1..n -> SeqsUpTo(NameSet, MaxDepLen)] :
           /\ steps = [i \in 1..n |-> StepDef(Names[i], d[i], "stop")]
           /\ ~topological_sort(steps).ok
    /\ jobs = EmptyDict
    /\ runs = EmptyDict
    /\ vol = Committed(EmptyDict, EmptyDict)
    /\ eng = [j \in JobIds |-> EngIdle]
    /\ orch = OrchIdle
    /\ faults = 0
    /\ jhist = [j \in JobIds |-> <<>>]
    /\ rhist = <<>>
    /\ tsteps = <<>>
    /\ tresult = None
    /\ targs = NoArgs
    /\ tout = <<>>
    /\ ws = WsIdle
    /\ req = NoReq
    /\ ctr = NoContainers

AdmitNext ==
    \/ ep_run_pipeline
    \/ ExecStart
    \/ CatchAll

AdmitSpec == AdmitInit /\ [][AdmitNext]_vars

\* ------------------------------------------------------------------------
\* Specification of the write endpoints under every configuration of the
\* shared secret: API_KEY set or not on the server, and a request carrying
\* no secret, the right one or a wrong one
\* ------------------------------------------------------------------------
Secrets == {None, Some("key"), Some("wrong")}

AuthInit ==
    /\ scenario \in {"submit", "create"}
    /\ steps = <<>>
    /\ jobs = EmptyDict
    /\ runs = EmptyDict
    /\ vol = Committed(EmptyDict, EmptyDict)
    /\ eng = [j \in JobIds |-> EngIdle]
    /\ orch = OrchIdle
    /\ faults = 0
    /\ jhist = [j \in JobIds |-> <<>>]
    /\ rhist = <<>>
    /\ tsteps = IF scenario = "create"
                THEN <<StepDef("A", <<>>, "stop"), StepDef("B", <<"A">>, "stop")>>
                ELSE <<>>
    /\ tresult = None
    /\ targs = NoArgs
    /\ tout = <<>>
    /\ ws = WsIdle
    /\ \E k \in {None, Some("key")}, h \in Secrets :
         req = [api_key |-> k, secret |-> h]
    /\ ctr = NoContainers

AuthNext ==
    \/ ep_submit
    \/ ep_create_pipeline
    \/ \E j \in {"J"} : Engine(j)

AuthSpec == AuthInit /\ [][AuthNext]_vars

\* ------------------------------------------------------------------------
\* Specification of the store file under concurrent containers: the API
\* container and one worker container per submitted job each mount the volume
\* and hold their own copy of agent.db; commit publishes the container's copy
\* of the file, reload replaces it by the published one
\* ------------------------------------------------------------------------
SubmitIds == {"J", "K"}

Containers == {"api"} \cup SubmitIds

ContainerIdle == [pc |-> "idle", attempt |-> 0, db |-> EmptyDict]

\* db_volume.commit(): agent.db is one file of the volume, and the copy of
\* the committing container becomes the published file
Commit(db) == [vol EXCEPT !.jobs = db]

\* POST /submit in the API container: create_job, commit, spawn
submit_job(j) ==
    /\ ctr[j].pc = "idle"
    /\ LET db == ctr["api"].db @@ (j :> NewJob(NULL, 0))
       IN  /\ vol' = Commit(db)
           /\ ctr' = [ctr EXCEPT !["api"].db = db, ![j].pc = "start"]
    /\ UNCHANGED <<scenario, steps, jobs, runs, eng, orch, faults, jhist,
                   rhist, tsteps, tresult, targs, tout, ws, req>>

\* GET /status/{job_id} in the API container: db_volume.reload()
read_job ==
    /\ ctr["api"].db # vol.jobs
    /\ ctr' = [ctr EXCEPT !["api"].db = vol.jobs]
    /\ UNCHANGED <<scenario, steps, jobs, runs, vol, eng, orch, faults, jhist,
                   rhist, tsteps, tresult, targs, tout, ws, req>>

\* run_agent_task in its own container: reload, get_job, raise if not found
task_reload(j) ==
    /\ ctr[j].pc = "start"
    /\ ctr' = [ctr EXCEPT ![j].db = vol.jobs,
                          ![j].pc = IF j \in DOMAIN vol.jobs THEN "loaded"
                                    ELSE "raised"]
    /\ UNCHANGED <<scenario, steps, jobs, runs, vol, eng, orch, faults, jhist,
                   rhist, tsteps, tresult, targs, tout, ws, req>>

\* update_job(status="running", started_at=now); commit
task_running(j) ==
    /\ ctr[j].pc = "loaded"
    /\ LET db == update_job(ctr[j].db, j,
                            [status |-> "running", started_at |-> TS])
       IN  /\ vol' = Commit(db)
           /\ ctr' = [ctr EXCEPT ![j].db = db, ![j].pc = "attempt",
                                 ![j].attempt = 1]
    /\ UNCHANGED <<scenario, steps, jobs, runs, eng, orch, faults, jhist,
                   rhist, tsteps, tresult, targs, tout, ws, req>>

\* one attempt: it succeeds (completed, commit, return) or raises (retrying,
\* commit, sleep; after the last attempt failed, commit, raise)
task_attempt(j) ==
    /\ ctr[j].pc = "attempt"
    /\ \E ok \in BOOLEAN :
         LET a      == ctr[j].attempt
             fields == IF ok
                       THEN [status |-> "completed", completed_at |-> TS,
                             attempt |-> a]
                       ELSE IF a < MAX_ATTEMPTS
                       THEN [status |-> "retrying", attempt |-> a]
                       ELSE [status |-> "failed", completed_at |-> TS]
             db     == update_job(ctr[j].db, j, fields)
         IN  /\ vol' = Commit(db)
             /\ ctr' = [ctr EXCEPT
                          ![j].db = db,
                          ![j].pc = IF ok THEN "returned"
                                    ELSE IF a < MAX_ATTEMPTS THEN "attempt"
                                    ELSE "raised",
                          ![j].attempt = IF ~ok /\ a < MAX_ATTEMPTS
                                         THEN a + 1 ELSE a]
    /\ UNCHANGED <<scenario, steps, jobs, runs, eng, orch, faults, jhist,
                   rhist, tsteps, tresult, targs, tout, ws, req>>

VolInit ==
    /\ scenario = "submit"
    /\ steps = <<>>
    /\ jobs = EmptyDict
    /\ runs = EmptyDict
    /\ vol = Committed(EmptyDict, EmptyDict)
    /\ eng = [j \in JobIds |-> EngIdle]
    /\ orch = OrchIdle
    /\ faults = 0
    /\ jhist = [j \in JobIds |-> <<>>]
    /\ rhist = <<>>
    /\ tsteps = <<>>
    /\ tresult = None
    /\ targs = NoArgs
    /\ tout = <<>>
    /\ ws = WsIdle
    /\ req = NoReq
    /\ ctr = [c \in Containers |-> ContainerIdle]

VolNext ==
    \/ \E j \in SubmitIds : submit_job(j)
    \/ read_job
    \/ \E j \in SubmitIds : task_reload(j)
    \/ \E j \in SubmitIds : task_running(j)
    \/ \E j \in SubmitIds : task_attempt(j)

VolSpec == VolInit /\ [][VolNext]_vars

\* the record of job j as published on the volume changes in this step
Republished(j) == j \notin DOMAIN vol'.jobs \/ vol'.jobs[j] # vol.jobs[j]

\* the step is taken by the worker container of job j, or submits j
OwnStep(j) == ctr'[j] # ctr[j]

\* C38: a commit of one container neither loses nor reverts the record that
\* another container has committed for a different job: every step leaves the
\* published record of each job as it was, unless the step belongs to that
\* job's own worker
C38_CommitsIndependent ==
    [][\A j \in DOMAIN vol.jobs : Republished(j) => OwnStep(j)]_vars

\* ------------------------------------------------------------------------
\* Specification of one subscription to a standalone job
\* ------------------------------------------------------------------------
Frame(type, status, error, new_logs, total_logs) ==
    [type |-> type, status |-> status, error |-> error, new_logs |-> new_logs,
     total_logs |-> total_logs]

\* variant of SliceFrom that starts one line early
SliceFrom_Inclusive(s, n) ==
    IF n > Len(s) THEN <<>> ELSE SubSeq(s, IF n = 0 THEN 1 ELSE n, Len(s))

\* current_logs[last_log_count:]
SliceFrom(s, n) == IF n >= Len(s) THEN <<>> ELSE SubSeq(s, n + 1, Len(s))

\* variant of Stop that never leaves the loop
Stop_Never(current_status) == FALSE

\* variant of Stop that stops on a failed job only
Stop_FailedOnly(current_status) == current_status = "failed"

\* if current_status in ("completed", "failed")
Stop(current_status) == current_status \in {"completed", "failed"}

\* current_status != last_status or len(current_logs) != last_log_count
Changed(current_status, current_logs) ==
    \/ current_status # ws.last_status
    \/ Len(current_logs) # ws.last_log_count

\* variant of Reload that reads the local files without db_volume.reload()
Reload_Skipped == jobs

\* db_volume.reload(): the job rows as last committed
Reload == vol.jobs

\* a status appended to the statuses a reader has seen, in the order of its
\* reads (a repeated read of the same status is kept once)
Seen(seen, status) ==
    IF seen # <<>> /\ seen[Len(seen)] = status THEN seen
    ELSE Append(seen, status)

\* one iteration of the loop of ws_job: reload, get_job, send what changed,
\* send "done" and stop on a terminal status
ws_job ==
    /\ ws.pc = "open"
    /\ IF ws.job_id \notin DOMAIN Reload
       THEN ws' = [ws EXCEPT
                     !.pc = "closed",
                     !.frames = Append(@, Frame("error", NULL, None, <<>>, 0))]
       ELSE LET record         == Reload[ws.job_id]
                current_status == record.status
                current_logs   == record.logs
                changed == Changed(current_status, current_logs)
                update  == Frame("update", current_status, record.error,
                                 SliceFrom(current_logs, ws.last_log_count),
                                 Len(current_logs))
                sent    == IF changed THEN Append(ws.frames, update)
                           ELSE ws.frames
                stop    == Stop(current_status)
            IN  ws' = [ws EXCEPT
                         !.last_status = IF changed THEN current_status ELSE @,
                         !.last_log_count = IF changed THEN Len(current_logs)
                                            ELSE @,
                         !.frames = IF stop
                                    THEN Append(sent, Frame("done", current_status,
                                                            None, <<>>, 0))
                                    ELSE sent,
                         !.pc = IF stop THEN "closed" ELSE "open",
                         !.seen = Seen(@, current_status),
                         !.sent_logs = IF changed THEN current_logs ELSE @]
    /\ UNCHANGED <<scenario, steps, jobs, runs, vol, eng, orch, faults,
                   jhist, rhist, tsteps, tresult, targs, tout, req, ctr>>

\* GET /status/{job_id}: reload, get_job, return the record's status
ep_status ==
    /\ ws.pc # "none"
    /\ ws.job_id \in DOMAIN Reload
    /\ ws' = [ws EXCEPT !.http_seen = Seen(@, Reload[ws.job_id].status)]
    /\ UNCHANGED <<scenario, steps, jobs, runs, vol, eng, orch, faults,
                   jhist, rhist, tsteps, tresult, targs, tout, req, ctr>>

\* GET /result/{job_id}: reload, get_job, return status, result, error, logs
ep_result ==
    /\ ws.pc # "none"
    /\ ws.job_id \in DOMAIN Reload
    /\ LET record == Reload[ws.job_id]
       IN  ws' = [ws EXCEPT !.result = Some([status |-> record.status,
                                             result |-> record.result,
                                             error |-> record.error])]
    /\ UNCHANGED <<scenario, steps, jobs, runs, vol, eng, orch, faults,
                   jhist, rhist, tsteps, tresult, targs, tout, req, ctr>>

\* a client is connected to /ws/J, before or after the job is submitted
WsInit ==
    /\ scenario = "submit"
    /\ steps = <<>>
    /\ jobs = EmptyDict
    /\ runs = EmptyDict
    /\ vol = Committed(EmptyDict, EmptyDict)
    /\ eng = [j \in JobIds |-> EngIdle]
    /\ orch = OrchIdle
    /\ faults = 0
    /\ jhist = [j \in JobIds |-> <<>>]
    /\ rhist = <<>>
    /\ tsteps = <<>>
    /\ tresult = None
    /\ targs = NoArgs
    /\ tout = <<>>
    /\ ws = [WsIdle EXCEPT !.pc = "open"]
    /\ req = NoReq
    /\ ctr = NoContainers

WsNext ==
    \/ ep_submit
    \/ \E j \in {"J"} : Engine(j)
    \/ ws_job
    \/ ep_status

WsSpec == WsInit /\ [][WsNext]_vars

\* the handler and GET /result beside the engine
ResultNext ==
    \/ ep_submit
    \/ \E j \in {"J"} : Engine(j)
    \/ ws_job
    \/ ep_result

ResultSpec == WsInit /\ [][ResultNext]_vars

\* the handler alone with the engine: the loop's sleep always returns, so
\* the next poll always comes, and the spawned engine is scheduled until it
\* returns or raises
WsFairNext ==
    \/ ep_submit
    \/ \E j \in {"J"} : Engine(j)
    \/ ws_job

WsFairSpec ==
    /\ WsInit
    /\ [][WsFairNext]_vars
    /\ WF_vars(ws_job)
    /\ WF_vars(\E j \in {"J"} : Engine(j))

\* ------------------------------------------------------------------------
\* Specification of topological_sort as a function of its argument
\* ------------------------------------------------------------------------
\* the argument is a step list with unique names, as ep_create_pipeline and
\* the orchestrator pass it on: up to three steps, any depends_on lists
TopoInit ==
    /\ scenario = "sort"
    /\ steps = <<>>
    /\ jobs = EmptyDict
    /\ runs = EmptyDict
    /\ vol = Committed(EmptyDict, EmptyDict)
    /\ eng = [j \in JobIds |-> EngIdle]
    /\ orch = OrchIdle
    /\ faults = 0
    /\ jhist = [j \in JobIds |-> <<>>]
    /\ rhist = <<>>
    /\ \E n \in 0..Len(Names) :
         \E nm \in [1..n -> NameSet] :
           /\ \A a, b \in 1..n : nm[a] = nm[b] => a = b
           /\ \E d \in [1..n -> SeqsUpTo(NameSet, MaxDepLen)] :
                tsteps = [i \in 1..n |->
                            [name |-> nm[i], task |-> <<>>,
                             depends_on |-> d[i], on_failure |-> "stop"]]
    /\ tresult = None
    /\ targs = NoArgs
    /\ tout = <<>>
    /\ ws = WsIdle
    /\ req = NoReq
    /\ ctr = NoContainers

Sort ==
    /\ scenario = "sort"
    /\ tresult = None
    /\ tresult' = Some(topological_sort(tsteps))
    /\ UNCHANGED <<scenario, steps, jobs, runs, vol, eng, orch, faults,
                   jhist, rhist, tsteps, targs, tout, ws, req, ctr>>

TopoNext == Sort

TopoSpec == TopoInit /\ [][TopoNext]_vars

\* ------------------------------------------------------------------------
\* Specification of resolve_templates as a function of its arguments
\* ------------------------------------------------------------------------
TmplSteps == {"A", "B"}

TmplKeys == {"key", "other"}

\* pieces of a text: literal text that holds no placeholder, and the
\* placeholders _TEMPLATE_RE matches
TmplPieces == {Lit("x")} \cup {Ph(n, k) : n \in TmplSteps, k \in TmplKeys}

\* values of an output: null, strings (plain, empty, and one that is itself
\* a placeholder), a number and a composite
TmplValues ==
    { NullVal, StrVal(<<Lit("v1")>>), StrVal(<<>>),
      StrVal(<<Ph("B", "key")>>), IntVal("0"), JsonVal(<<Lit("v1")>>) }

TmplOutputs == UNION {[K -> TmplValues] : K \in SUBSET TmplKeys}

TmplInit ==
    /\ scenario = "resolve"
    /\ steps = <<>>
    /\ jobs = EmptyDict
    /\ runs = EmptyDict
    /\ vol = Committed(EmptyDict, EmptyDict)
    /\ eng = [j \in JobIds |-> EngIdle]
    /\ orch = OrchIdle
    /\ faults = 0
    /\ jhist = [j \in JobIds |-> <<>>]
    /\ rhist = <<>>
    /\ tsteps = <<>>
    /\ tresult = None
    /\ \E n \in 0..MaxTextLen :
         \E text \in [1..n -> TmplPieces] :
           \E D \in SUBSET TmplSteps :
             \E m \in [D -> TmplOutputs] :
               targs = [text |-> text, step_outputs |-> m]
    /\ tout = <<>>
    /\ ws = WsIdle
    /\ req = NoReq
    /\ ctr = NoContainers

\* resolve_templates applied to the text, then to the text it returned
Resolve ==
    /\ scenario = "resolve"
    /\ Len(tout) < 2
    /\ tout' = Append(tout,
                      resolve_templates(IF tout = <<>> THEN targs.text
                                        ELSE tout[Len(tout)],
                                        targs.step_outputs))
    /\ UNCHANGED <<scenario, steps, jobs, runs, vol, eng, orch, faults,
                   jhist, rhist, tsteps, tresult, targs, ws, req, ctr>>

TmplNext == Resolve

TmplSpec == TmplInit /\ [][TmplNext]_vars

\* ------------------------------------------------------------------------
\* Properties of topological_sort (checked under TopoSpec)
\* ------------------------------------------------------------------------
DepsOf(sl, n) == UNION {Range(sl[i].depends_on) : i \in {k \in 1..Len(sl) : sl[k].name = n}}

\* every depends_on entry names a step of the list
Closed(sl) == \A n \in StepNames(sl) : DepsOf(sl, n) \subseteq StepNames(sl)

\* names reachable from n along depends_on in at most k hops (k >= 1)
RECURSIVE Ancestors(_, _, _)
Ancestors(sl, n, k) ==
    IF k = 0 THEN {}
    ELSE LET near == DepsOf(sl, n) \cap StepNames(sl)
         IN  near \cup UNION {Ancestors(sl, d, k - 1) : d \in near}

Acyclic(sl) == \A n \in StepNames(sl) : n \notin Ancestors(sl, n, Len(sl))

\* indices of the layers that contain n
LayersWith(layers, n) == {i \in 1..Len(layers) : n \in Range(layers[i])}

Occurrences(layers, n) ==
    LET flat == Flatten(layers)
    IN  Cardinality({k \in 1..Len(flat) : flat[k] = n})

SetMax(S) == CHOOSE x \in S : \A y \in S : y <= x

Sorted == tresult # None

\* C9: for a step list with unique names whose depends_on graph is closed and
\* acyclic, topological_sort returns layers in which every step name occurs
\* exactly once and every dependency of a step lies in a strictly earlier layer
C9_LayeringCoversAndOrders ==
    (Sorted /\ Closed(tsteps) /\ Acyclic(tsteps)) =>
        /\ tresult[1].ok
        /\ \A n \in StepNames(tsteps) : Occurrences(tresult[1].layers, n) = 1
        /\ \A n \in StepNames(tsteps) : \A d \in DepsOf(tsteps, n) :
             \A i \in LayersWith(tresult[1].layers, n) :
               \A j \in LayersWith(tresult[1].layers, d) : j < i

\* a three-step list with dependencies has been layered
C9_Witness ==
    /\ Sorted /\ Closed(tsteps) /\ Acyclic(tsteps)
    /\ Len(tsteps) = 3
    /\ \E n \in StepNames(tsteps) : Cardinality(DepsOf(tsteps, n)) = 2
    /\ Len(tresult[1].layers) = 2

\* C10: every step is in the earliest possible layer: a step without
\* dependencies is in the first layer, any other step is in the layer right
\* after the latest layer holding one of its dependencies; no layer is empty
C10_EarliestLayer ==
    (Sorted /\ tresult[1].ok) =>
        /\ \A i \in 1..Len(tresult[1].layers) : tresult[1].layers[i] # <<>>
        /\ \A n \in StepNames(tsteps) :
             LET mine == LayersWith(tresult[1].layers, n)
                 deps == DepsOf(tsteps, n)
             IN  IF deps = {} THEN mine = {1}
                 ELSE mine = {1 + SetMax(UNION {LayersWith(tresult[1].layers, d) :
                                                  d \in deps})}

\* a step whose dependencies sit in two different layers has been layered
C10_Witness ==
    /\ Sorted /\ tresult[1].ok
    /\ Len(tresult[1].layers) = 3
    /\ \E n \in StepNames(tsteps) : Cardinality(DepsOf(tsteps, n)) = 2

SetMin(S) == CHOOSE x \in S : \A y \in S : x <= y

\* length of the longest and of the shortest dependency path from a step
\* without dependencies to n (paths of at most k hops, k >= number of steps)
RECURSIVE LongestPath(_, _, _)
LongestPath(sl, n, k) ==
    IF DepsOf(sl, n) = {} \/ k = 0 THEN 0
    ELSE 1 + SetMax({LongestPath(sl, d, k - 1) : d \in DepsOf(sl, n)})

RECURSIVE ShortestPath(_, _, _)
ShortestPath(sl, n, k) ==
    IF DepsOf(sl, n) = {} \/ k = 0 THEN 0
    ELSE 1 + SetMin({ShortestPath(sl, d, k - 1) : d \in DepsOf(sl, n)})

\* no member of the layer depends on another, directly or through others
Independent(sl, layer) ==
    \A a, b \in Range(layer) : a \notin Ancestors(sl, b, Len(sl))

\* C34 as stated: layer i (counted from 0) holds exactly the steps whose
\* shortest dependency path from a step without dependencies has length i,
\* and the members of a layer are mutually independent
C34_MinimumDistance_AsStated ==
    (Sorted /\ Closed(tsteps) /\ Acyclic(tsteps)) =>
        /\ tresult[1].ok
        /\ \A i \in 1..Len(tresult[1].layers) :
             /\ Range(tresult[1].layers[i]) =
                  {n \in StepNames(tsteps) :
                     ShortestPath(tsteps, n, Len(tsteps)) = i - 1}
             /\ Independent(tsteps, tresult[1].layers[i])

\* C34, amended: layer i (counted from 0) holds exactly the steps whose
\* longest dependency path from a step without dependencies has length i,
\* and the members of a layer are mutually independent
C34_MaximumDistance ==
    (Sorted /\ Closed(tsteps) /\ Acyclic(tsteps)) =>
        /\ tresult[1].ok
        /\ \A i \in 1..Len(tresult[1].layers) :
             /\ Range(tresult[1].layers[i]) =
                  {n \in StepNames(tsteps) :
                     LongestPath(tsteps, n, Len(tsteps)) = i - 1}
             /\ Independent(tsteps, tresult[1].layers[i])

\* a step that depends on a step without dependencies and on a step one hop
\* away from it (shortest path 1, longest path 2) was put in the third layer
C34_Witness ==
    /\ Sorted /\ tresult[1].ok
    /\ Len(tresult[1].layers) = 3
    /\ \E n \in Range(tresult[1].layers[3]) :
         /\ ShortestPath(tsteps, n, Len(tsteps)) = 1
         /\ LongestPath(tsteps, n, Len(tsteps)) = 2

\* C11: for a step list whose depends_on graph has a cycle (a step that
\* depends on itself included), topological_sort raises and returns no
\* layering, not even of the steps off the cycle; the error is the cycle error
\* whenever every depends_on name is a step of the list, so that the graph
\* is built at all
C11_CycleRaises ==
    (Sorted /\ ~Acyclic(tsteps)) =>
        /\ ~tresult[1].ok
        /\ tresult[1].layers = <<>>
        /\ Closed(tsteps) => tresult[1].err = "cycle"

\* a list of three steps was sorted in which one step has no dependency and
\* the other two depend on each other
C11_Witness ==
    /\ Sorted /\ Closed(tsteps) /\ ~Acyclic(tsteps)
    /\ Len(tsteps) = 3
    /\ \E n \in StepNames(tsteps) : DepsOf(tsteps, n) = {}
    /\ \A n \in StepNames(tsteps) : n \notin DepsOf(tsteps, n)
    /\ tresult[1].err = "cycle"

\* ------------------------------------------------------------------------
\* Properties of resolve_templates (checked under TmplSpec)
\* ------------------------------------------------------------------------
\* C12: resolve_templates is idempotent: resolving the text it returned, with
\* the same outputs map, returns that text again
C12_Idempotent == Len(tout) = 2 => tout[2] = tout[1]

\* the placeholder has a non-null value in the outputs map
Resolvable(tok, m) ==
    /\ tok.t = "ph"
    /\ tok.s \in DOMAIN m
    /\ tok.k \in DOMAIN m[tok.s]
    /\ m[tok.s][tok.k].ty # "null"

Moves(h) == {<<h[i], h[i + 1]>> : i \in 1..(Len(h) - 1)}

JobMoves ==
    { <<"queued", "running">>, <<"running", "retrying">>,
      <<"retrying", "running">>, <<"running", "completed">>,
      <<"running", "failed">> }

RunMoves ==
    { <<"pending", "running">>, <<"running", "completed">>,
      <<"running", "failed">> }

\* C1: for every job handed to a job engine, the statuses written to its
\* record follow queued -> running -> (retrying -> running)* -> completed |
\* failed: after each retrying the next status written is running
C1_StatusPath ==
    \A j \in JobIds :
        (eng[j].pc # "idle" /\ jhist[j] # <<>>) =>
            /\ jhist[j][1] = "queued"
            /\ Moves(jhist[j]) \subseteq JobMoves

\* C2: once a job record's status is completed or failed, no step of an
\* engine or of the orchestrator changes any field of the record
C2_TerminalJobImmutable ==
    [][\A j \in DOMAIN jobs :
         jobs[j].status \in Terminal =>
            (j \in DOMAIN jobs' /\ jobs'[j] = jobs[j])]_vars

\* C3: the statuses written to a pipeline run follow pending -> running ->
\* completed | failed, and a run that is completed or failed is never written
\* again with a different status
C3_RunStatusPath ==
    rhist # <<>> =>
        /\ rhist[1] = "pending"
        /\ Moves(rhist) \subseteq
              (RunMoves \cup {<<t, t>> : t \in Terminal})

\* ------------------------------------------------------------------------
\* Properties of the orchestration of a run (checked under Spec)
\* ------------------------------------------------------------------------
OrchStarted == orch.pc # "idle"

OrchEnded == orch.pc \in {"done", "crashed"}

RunStatus == IF RunId \in DOMAIN runs THEN runs[RunId].status ELSE NULL

\* the step has been handed to the step engine
Dispatched(n) == eng[n].pc # "idle"

\* the layer of the run that holds step n
LayerOf(n) == CHOOSE i \in 1..Len(orch.layers) : n \in Range(orch.layers[i])

PolicyOf(n) == steps[IndexOf(KeyOrder(steps), n)].on_failure

\* steps whose dispatch ended in the orchestrator's except branch: the engine
\* invocation raised, or the reload after it did
FailedSteps ==
    {n \in DOMAIN orch.step_outputs : "error" \in DOMAIN orch.step_outputs[n]}

FailedStops == {n \in FailedSteps : PolicyOf(n) = "stop"}

Skipped(n) ==
    /\ n \in DOMAIN jobs
    /\ jobs[n].status = "failed"
    /\ jobs[n].error # None
    /\ jobs[n].error[1].prefix = "Skipped: upstream step failed"

RunBlames(n) ==
    /\ runs[RunId].error # None
    /\ runs[RunId].error[1].prefix = "Step failed: "
    /\ runs[RunId].error[1].step = n

LaterSteps(n) == {t \in StepNames(steps) : LayerOf(t) > LayerOf(n)}

C7_LayerOrder ==
    \A n \in StepNames(steps) :
        Dispatched(n) =>
            /\ \A t \in StepNames(steps) :
                 LayerOf(t) < LayerOf(n) => eng[t].pc \in {"returned", "raised"}
            /\ \A d \in DepsOf(steps, n) :
                 /\ eng[d].pc \in {"returned", "raised"}
                 /\ jobs[d].status \in Terminal

\* the third layer's step is running after a step of an earlier layer failed
C7_Witness ==
    \E n \in StepNames(steps) :
        /\ eng[n].pc = "agent"
        /\ LayerOf(n) = 3
        /\ \E d \in StepNames(steps) : jobs[d].status = "failed"

\* what the orchestrator keeps for a step whose invocation returned ret
Recorded(ret) ==
    IF DOMAIN ret # {} THEN ret ELSE ("exit_code" :> IntVal("0"))

ErrorEntry(msg) == ("error" :> StrVal(<<Lit(msg)>>))

\* the invocation of d returned an output with the key, and it was recorded
Gave(n, d) ==
    /\ eng[d].pc = "returned"
    /\ "key" \in DOMAIN eng[d].ret[1]
    /\ d \in DOMAIN eng[n].upstream
    /\ eng[n].upstream[d] = eng[d].ret[1]

\* C8: the upstream_outputs of a dispatched step hold, for every dispatched
\* step of an earlier layer, the output its invocation returned (or
\* {exit_code: 0} for an empty one) or an {error: ...} entry when it failed;
\* in its task, the reference to a dependency's key is replaced by the value
\* that dependency returned, and kept when there is no such value
C8_UpstreamOutputs ==
    \A n \in StepNames(steps) :
        Dispatched(n) =>
            /\ \A t \in StepNames(steps) :
                 (Dispatched(t) /\ LayerOf(t) < LayerOf(n)) =>
                    /\ t \in DOMAIN eng[n].upstream
                    /\ IF eng[t].pc = "raised"
                       THEN eng[n].upstream[t] = ErrorEntry(eng[t].exc[1].msg)
                       ELSE eng[n].upstream[t] \in
                              {Recorded(eng[t].ret[1]), ErrorEntry("reload")}
            /\ LET deps == StepMap[n].depends_on
               IN  /\ Len(eng[n].task) = 1 + Len(deps)
                   /\ \A k \in 1..Len(deps) :
                        eng[n].task[k + 1] =
                           IF Gave(n, deps[k]) THEN Lit("v1")
                           ELSE Ph(deps[k], "key")

\* a step was dispatched after one dependency failed and the other returned
\* the key: the first reference is kept, the second is replaced
C8_Witness ==
    \E n \in StepNames(steps) :
        /\ Dispatched(n)
        /\ StepMap[n].depends_on = <<"A", "B">>
        /\ eng[n].upstream["A"] = ErrorEntry("agent")
        /\ eng[n].upstream["B"] = ("key" :> StrVal(<<Lit("v1")>>))
        /\ eng[n].task = <<Lit(n), Ph("A", "key"), Lit("v1")>>

\* ------------------------------------------------------------------------
\* Properties of the attempts of a job engine (checked under Spec)
\* ------------------------------------------------------------------------
\* how often a status was written to the record of job j
Written(j, status) ==
    Cardinality({i \in 1..Len(jhist[j]) : jhist[j][i] = status})

\* exceptions the attempt loop of j has handled so far
Handled(j) == Written(j, "retrying") + Written(j, "failed")

\* C14: an engine makes at most MAX_ATTEMPTS attempts and every exception
\* ends exactly one of them: an engine that returned left the job completed
\* with attempt one more than the exceptions handled, an engine that raised
\* left it failed after MAX_ATTEMPTS exceptions, and a dispatched job is
\* failed only if its engine raised
C14_AttemptsBounded ==
    \A j \in JobIds :
        Dispatched(j) =>
            /\ eng[j].attempt <= MAX_ATTEMPTS
            /\ Handled(j) <= MAX_ATTEMPTS
            /\ eng[j].pc = "returned" =>
                  /\ jobs[j].status = "completed"
                  /\ jobs[j].attempt = Handled(j) + 1
                  /\ jobs[j].attempt = eng[j].attempt
            /\ eng[j].pc = "raised" =>
                  /\ jobs[j].status = "failed"
                  /\ Handled(j) = MAX_ATTEMPTS
                  /\ jobs[j].attempt = MAX_ATTEMPTS
            /\ jobs[j].status = "failed" => eng[j].pc = "raised"
            /\ (jobs[j].status = "completed" /\ eng[j].pc # "returned") =>
                  eng[j].pc \in {"complete", "except"}

\* attempts 1 and 2 raised, attempt 3 returned: completed with attempt = 3
C14_Witness ==
    /\ eng["J"].pc = "returned"
    /\ jhist["J"] = <<"queued", "running", "retrying", "retrying", "completed">>
    /\ jobs["J"].status = "completed"
    /\ jobs["J"].attempt = 3

\* C15: a job whose status is completed or failed (by exhaustion or by the
\* skip of its layer) stores an attempt equal to the number of retrying
\* writes it went through plus 1
C15_AttemptCountsRetries ==
    \A j \in DOMAIN jobs :
        jobs[j].status \in Terminal =>
            jobs[j].attempt = Written(j, "retrying") + 1

\* one step used up its attempts (attempt 3 after two retrying writes) and a
\* step of a later layer was skipped (attempt 1, never retried)
C15_Witness ==
    /\ \E j \in DOMAIN jobs :
         /\ eng[j].pc = "raised"
         /\ jobs[j].status = "failed"
         /\ Written(j, "retrying") = 2
         /\ jobs[j].attempt = 3
    /\ \E n \in DOMAIN jobs :
         /\ Skipped(n)
         /\ jobs[n].attempt = 1

\* C16: the stored attempt lies in 1..max_attempts, and a write that changes
\* it is a write that sets the status to retrying
C16_AttemptChangesOnRetrying ==
    [][\A j \in DOMAIN jobs :
         /\ jobs[j].attempt \in 1..jobs[j].max_attempts
         /\ (j \in DOMAIN jobs' /\ jobs'[j].attempt # jobs[j].attempt) =>
               jhist'[j] = Append(jhist[j], "retrying")]_vars

\* C17: completed_at is set exactly when the status is completed or failed
C17_CompletedAtIffTerminal ==
    \A j \in DOMAIN jobs :
        jobs[j].completed_at # NULL <=> jobs[j].status \in Terminal

\* C18 as stated: started_at is set exactly when some status other than
\* queued has been written to the record
C18_StartedAt_AsStated ==
    \A j \in DOMAIN jobs :
        jobs[j].started_at # NULL <=>
            (\E i \in 1..Len(jhist[j]) : jhist[j][i] # "queued")

\* C18: started_at is set exactly when an engine has set the job running; a
\* job that is skipped goes from queued to failed and its started_at stays
\* unset
C18_StartedAt ==
    \A j \in DOMAIN jobs :
        /\ jobs[j].started_at # NULL <=> Written(j, "running") > 0
        /\ Skipped(j) =>
              (jhist[j] = <<"queued", "failed">> /\ jobs[j].started_at = NULL)

\* a step that ran has failed with started_at set, and a step of a later
\* layer was skipped: it has left queued and its started_at is unset
C18_Witness ==
    \E j, n \in DOMAIN jobs :
        /\ jobs[j].status = "failed" /\ jobs[j].started_at # NULL
        /\ Skipped(n) /\ jobs[n].started_at = NULL

\* C30: a job marked failed with "Skipped: upstream step failed" was never
\* handed to the step engine: it went from queued straight to failed, and it
\* keeps attempt = 1, no started_at and no log line
C30_SkippedNeverDispatched ==
    \A n \in DOMAIN jobs :
        Skipped(n) =>
            /\ ~Dispatched(n)
            /\ jhist[n] = <<"queued", "failed">>
            /\ jobs[n].attempt = 1
            /\ jobs[n].started_at = NULL
            /\ jobs[n].logs = <<>>

\* after step A failed under policy "stop", the jobs of B and C, in two later
\* layers, were both marked skipped
C30_Witness ==
    /\ orch.pc = "done"
    /\ Len(orch.layers) = 3
    /\ "A" \in FailedStops
    /\ Skipped("B") /\ Skipped("C")
    /\ ~Dispatched("B") /\ ~Dispatched("C")
    /\ jobs["A"].attempt = MAX_ATTEMPTS

IsPrefix(a, b) == Len(a) <= Len(b) /\ SubSeq(b, 1, Len(a)) = a

\* C19: every step leaves in each job record a log sequence that extends the
\* one stored before
C19_LogsAppendOnly ==
    [][\A j \in DOMAIN jobs :
         j \in DOMAIN jobs' /\ IsPrefix(jobs[j].logs, jobs'[j].logs)]_vars

\* the completed write of a second attempt has stored its lines after those
\* of the first attempt and of the retrying write
C19_Witness ==
    \E j \in DOMAIN jobs :
        /\ jobs[j].status = "completed"
        /\ jobs[j].attempt = 2
        /\ Len(jobs[j].logs) > 4
        /\ jobs[j].logs[1].a = 1
        /\ jobs[j].logs[4].m = "retrying"

\* the engine of job j gave up after its last attempt and re-raised
Exhausted(j) ==
    /\ j \in DOMAIN jobs
    /\ eng[j].pc = "raised"
    /\ eng[j].last_error # None

\* C27: a job that exhausted its attempts, standalone or pipeline step, has
\* status failed, attempt = MAX_ATTEMPTS and an error made of the text
\* "All 3 attempts failed. Last error: " and the last exception's message cut
\* to 500 characters
C27_ExhaustedError ==
    \A j \in JobIds :
        Exhausted(j) =>
            /\ jobs[j].status = "failed"
            /\ jobs[j].attempt = MAX_ATTEMPTS
            /\ jobs[j].error =
                   Some(ErrText("All 3 attempts failed. Last error: ",
                                Truncate(eng[j].last_error[1])))
            /\ jobs[j].error[1].len <= 500

RECURSIVE Sum(_)
Sum(s) == IF s = <<>> THEN 0 ELSE Head(s) + Sum(Tail(s))

\* C31: an engine sleeps once per retrying write, 10 s after attempt 1 and
\* 20 s after attempt 2, and not after the last attempt: an engine that used
\* up its attempts slept 30 s in all
C31_Backoff ==
    \A j \in JobIds :
        /\ IsPrefix(eng[j].slept, <<10, 20>>)
        /\ Dispatched(j) => Len(eng[j].slept) = Written(j, "retrying")
        /\ Exhausted(j) => Sum(eng[j].slept) = 30

\* a standalone job failed three times: retrying was written twice and the
\* engine slept 10 s and then 20 s, and not after the third failure
C31_Witness ==
    /\ Exhausted("J")
    /\ eng["J"].slept = <<10, 20>>
    /\ Written("J", "retrying") = 2
    /\ Written("J", "failed") = 1

\* position of step n in the order in which the run dispatches its steps
DispatchPos(n) == IndexOf(Flatten(orch.layers), n)

\* the invocations of steps dispatched before n that returned
ReturnedBefore(n) ==
    {m \in DOMAIN orch.job_ids :
        DispatchPos(m) < DispatchPos(n) /\ eng[m].pc = "returned"}

\* the engine of n runs shutil.rmtree(workspace) at the start of each attempt
\* that finds the directory
DeletesWorkspace(n) == Dispatched(n) /\ ~eng[n].skip_clone

\* C32: a step dispatched before any invocation of the run has returned gets
\* skip_clone = false, a step dispatched after one has returned gets
\* skip_clone = true, so no engine dispatched after a return deletes the
\* shared workspace
C32_SkipCloneAfterSuccess ==
    \A n \in DOMAIN orch.job_ids :
        Dispatched(n) =>
            /\ eng[n].skip_clone <=> ReturnedBefore(n) # {}
            /\ ReturnedBefore(n) # {} => ~DeletesWorkspace(n)

\* A failed under "continue" and was followed by a fresh clone for B; B
\* returned, and C was dispatched on the workspace B left
C32_Witness ==
    /\ DOMAIN orch.job_ids = {"A", "B", "C"}
    /\ eng["A"].pc = "raised" /\ ~eng["A"].skip_clone
    /\ eng["B"].pc = "returned" /\ ~eng["B"].skip_clone
    /\ Dispatched("C") /\ eng["C"].skip_clone

\* C33: when an exception has left the orchestrator body and run_pipeline_task
\* has re-raised it, the run is failed with completed_at set and an error
\* made of "Pipeline crashed: " and the exception's message cut to 500
\* characters, and that record is committed
C33_CrashMarksRunFailed ==
    orch.pc = "crashed" =>
        /\ orch.exc # None
        /\ runs[RunId].status = "failed"
        /\ runs[RunId].completed_at # NULL
        /\ runs[RunId].error =
               Some(RunErr("Pipeline crashed: ", "", Truncate(orch.exc[1])))
        /\ runs[RunId].error[1].len <= 500
        /\ vol.runs[RunId] = runs[RunId]

\* creating the job records raised after the first of two rows was inserted;
\* the run, which had only been marked running, was marked crashed
C33_Witness ==
    /\ orch.pc = "crashed"
    /\ orch.exc = Some(ExcAt("crash"))
    /\ Len(steps) = 2
    /\ DOMAIN jobs = {"A"}
    /\ rhist = <<"pending", "running", "failed">>

\* run_agent has returned to the engine of j with a non-zero exit code
NonZeroExit(j) ==
    /\ eng[j].pc = "complete"
    /\ eng[j].result[1].exit_code # 0

\* C35: when run_agent returns with a non-zero exit code, the engine's next
\* step writes status completed with that exit code in the result and the
\* attempt's number, without a retrying or failed write; the engine then
\* returns, unless the commit of that write raises
C35_NonZeroExitCompletes ==
    [][\A j \in JobIds :
         (NonZeroExit(j) /\ eng'[j] # eng[j]) =>
             /\ jobs'[j].status = "completed"
             /\ jobs'[j].result # None
             /\ jobs'[j].result[1].exit_code = eng[j].result[1].exit_code
             /\ jobs'[j].attempt = eng[j].attempt
             /\ jhist'[j] = Append(jhist[j], "completed")
             /\ \/ eng'[j].pc = "returned"
                \/ eng'[j].pc = "except" /\ eng'[j].exc = Some(ExcAt("commit"))]_vars

\* a standalone job whose only attempt ended with exit code 1 is completed,
\* committed, and its engine has returned without any retry
C35_Witness ==
    /\ eng["J"].pc = "returned"
    /\ jhist["J"] = <<"queued", "running", "completed">>
    /\ vol.jobs["J"].status = "completed"
    /\ vol.jobs["J"].result[1].exit_code = 1
    /\ vol.jobs["J"].attempt = 1

\* the job rows created for the run's steps
RunJobs == {n \in StepNames(steps) : n \in DOMAIN jobs}

\* a stop step failed, the orchestrator body returned without raising, and a
\* step of the failed step's own layer was never dispatched and is still queued
StrandedInLayer ==
    /\ orch.pc = "done"
    /\ RunStatus = "failed"
    /\ \E n \in FailedStops :
         \E t \in RunJobs :
            /\ t # n
            /\ LayerOf(t) = LayerOf(n)
            /\ ~Dispatched(t)
            /\ jobs[t].status = "queued"
            /\ vol.jobs[t].status = "queued"

ActiveEngines ==
    {n \in StepNames(steps) : eng[n].pc \notin {"idle", "returned", "raised"}}

\* C39: at most one step engine of the run is active at a time, and while one
\* is active the orchestrator is blocked in the call that dispatched it; so
\* every other dispatched step's invocation has already returned or raised
C39_OneEngineAtATime ==
    \A n \in ActiveEngines :
        /\ ActiveEngines = {n}
        /\ orch.pc = "wait"
        /\ CurrentStep = n
        /\ \A t \in StepNames(steps) \ {n} :
              Dispatched(t) => eng[t].pc \in {"returned", "raised"}

\* the second step of a layer is running after the first step of that layer
\* has returned
C39_Witness ==
    \E n \in ActiveEngines :
        \E t \in StepNames(steps) \ {n} :
            /\ LayerOf(t) = LayerOf(n)
            /\ eng[t].pc = "returned"
            /\ eng[n].pc = "agent"

UniqueNames(sl) == \A a, b \in 1..Len(sl) : sl[a].name = sl[b].name => a = b

WellFormed(sl) == UniqueNames(sl) /\ Closed(sl) /\ Acyclic(sl)

\* C24: POST /pipelines answers 400 and stores nothing when the step list has
\* a repeated step name, a depends_on entry naming no step of the list, or a
\* dependency cycle; so a stored step list has unique names, closed
\* depends_on references and no cycle (checked under CreateSpec)
C24_MalformedRejected ==
    /\ (tresult # None /\ ~WellFormed(tsteps)) =>
           tresult[1].code = 400 /\ steps = <<>>
    /\ steps # <<>> => WellFormed(steps)

\* a list of three steps with unique names and closed references that has a
\* dependency cycle was answered with 400 and nothing was stored
C24_Witness ==
    /\ tresult # None /\ Len(tsteps) = 3
    /\ tresult[1].code = 400 /\ steps = <<>>
    /\ UniqueNames(tsteps) /\ Closed(tsteps) /\ ~Acyclic(tsteps)

Unauthenticated == req.api_key # None /\ req.secret # req.api_key

\* C26: with API_KEY configured, a request to /submit or /pipelines without
\* the secret or with a wrong one is answered 401, writes nothing to the
\* store and spawns no engine (checked under AuthSpec)
C26_SecretRequired ==
    Unauthenticated =>
        /\ jobs = EmptyDict
        /\ steps = <<>>
        /\ eng["J"].pc = "idle"
        /\ tresult # None => tresult[1].code = 401

\* ------------------------------------------------------------------------
\* Properties of a subscription (checked under WsSpec)
\* ------------------------------------------------------------------------
UpdateFrames == SelectSeq(ws.frames, LAMBDA f : f.type = "update")

\* C20: the total_logs values of the update frames sent on one subscription
\* never decrease from one frame to a later one
C20_TotalLogsMonotone ==
    \A i, k \in 1..Len(UpdateFrames) :
        i < k => UpdateFrames[i].total_logs <= UpdateFrames[k].total_logs

\* the handler polled during the first attempt's backoff and again after the
\* second attempt completed: two update frames with growing total_logs
C20_Witness ==
    /\ Len(UpdateFrames) >= 3
    /\ \E i \in 1..Len(UpdateFrames) : UpdateFrames[i].status = "retrying"
    /\ UpdateFrames[Len(UpdateFrames)].status = "completed"
    /\ UpdateFrames[Len(UpdateFrames)].total_logs > UpdateFrames[2].total_logs
    /\ ws.pc = "closed"

\* the handler has read the job in a terminal status
ReadTerminal == \E i \in 1..Len(ws.seen) : ws.seen[i] \in {"completed", "failed"}

DoneFrames == SelectSeq(ws.frames, LAMBDA f : f.type = "done")

\* C21: once the handler has read the job in a terminal status it has sent
\* exactly one done frame, that frame is the last of the connection, it
\* carries the terminal status, and the frame before it is an update frame
\* carrying the same status
C21_DoneAfterTerminalUpdate ==
    /\ Len(DoneFrames) <= 1
    /\ \A i \in 1..Len(ws.frames) :
           ws.frames[i].type = "done" => i = Len(ws.frames)
    /\ ReadTerminal =>
           LET n == Len(ws.frames)
           IN  /\ Len(DoneFrames) = 1
               /\ n >= 2
               /\ ws.frames[n].type = "done"
               /\ ws.frames[n].status = ws.seen[Len(ws.seen)]
               /\ ws.pc = "closed"
               /\ ws.frames[n - 1].type = "update"
               /\ ws.frames[n - 1].status = ws.frames[n].status

\* a client that first polled when the job was already failed: one update
\* frame with status failed and all the log lines, then the done frame
C21_Witness ==
    /\ ReadTerminal
    /\ Len(ws.frames) = 2
    /\ ws.frames[1].type = "update"
    /\ ws.frames[1].status = "failed"
    /\ ws.frames[2].type = "done"

\* a is b with some elements left out, the others in the same order
RECURSIVE IsSubseq(_, _)
IsSubseq(a, b) ==
    IF a = <<>> THEN TRUE
    ELSE IF b = <<>> THEN FALSE
    ELSE IF a[1] = b[1] THEN IsSubseq(Tail(a), Tail(b))
    ELSE IsSubseq(a, Tail(b))

Last(s) == s[Len(s)]

\* a reader's read: its trail of statuses seen after the read is 'after'
ReadsCommitted(before, after) ==
    after # before =>
        /\ ws.job_id \in DOMAIN vol.jobs
        /\ Last(after) = vol.jobs[ws.job_id].status

CommittedTerminal ==
    /\ ws.job_id \in DOMAIN vol.jobs
    /\ vol.jobs[ws.job_id].status \in {"completed", "failed"}

SentDone == ws.frames # <<>> /\ Last(ws.frames).type = "done"

Delivered == Flatten([i \in 1..Len(UpdateFrames) |-> UpdateFrames[i].new_logs])

\* C29: the new_logs of all update frames sent on a subscription, taken
\* together in order, are the first total_logs lines of the job's logs as
\* read when the last update frame was sent: no line twice, none skipped
C29_LogsDeliveredOnce ==
    UpdateFrames # <<>> =>
        LET total_logs == Last(UpdateFrames).total_logs
        IN  /\ total_logs <= Len(ws.sent_logs)
            /\ Delivered = SubSeq(ws.sent_logs, 1, total_logs)

\* three update frames carried log lines: one per retry and the last with the
\* lines of the attempt that completed
C29_Witness ==
    /\ Cardinality({i \in 1..Len(UpdateFrames) :
                       UpdateFrames[i].new_logs # <<>>}) >= 3
    /\ Len(Delivered) >= 6
    /\ Last(UpdateFrames).status = "completed"

\* the error a completed record must still carry: none after a first attempt
\* that completed, else the message stored by the last retrying write
ErrorKept(record) ==
    IF record.attempt = 1 THEN None
    ELSE Some(ErrText("", Truncate(eng[ws.job_id].last_error[1])))

RecordKeepsError ==
    (ws.job_id \in DOMAIN jobs /\ jobs[ws.job_id].status = "completed") =>
        /\ jobs[ws.job_id].error = ErrorKept(jobs[ws.job_id])
        /\ jobs[ws.job_id].attempt > 1 => jobs[ws.job_id].error # None

\* C36: a job completed on an attempt a > 1 keeps, beside status completed,
\* the error stored by the last retrying write, and that error is what the
\* update frame and GET /result report for the completed job (checked
\* under ResultSpec)
C36_CompletedKeepsError ==
    [][/\ RecordKeepsError'
       /\ (ws'.frames # ws.frames /\ Last(ws'.frames).type = "done"
             /\ Last(ws'.frames).status = "completed") =>
            ws'.frames[Len(ws'.frames) - 1].error = vol.jobs[ws.job_id].error
       /\ (ws'.result # ws.result /\ ws'.result[1].status = "completed") =>
            ws'.result[1].error = vol.jobs[ws.job_id].error]_vars

\* the job completed on its second attempt; the last update frame and the
\* answer of GET /result both say completed and carry the first attempt's
\* error
C36_Witness ==
    /\ ws.job_id \in DOMAIN vol.jobs
    /\ vol.jobs[ws.job_id].status = "completed"
    /\ vol.jobs[ws.job_id].attempt = 2
    /\ vol.jobs[ws.job_id].error # None
    /\ SentDone
    /\ ws.frames[Len(ws.frames) - 1].status = "completed"
    /\ ws.frames[Len(ws.frames) - 1].error = vol.jobs[ws.job_id].error
    /\ ws.result # None
    /\ ws.result[1].status = "completed"
    /\ ws.result[1].error = vol.jobs[ws.job_id].error

\* ------------------------------------------------------------------------
\* Termination of a pipeline run (checked under FairSpec)
\* ------------------------------------------------------------------------
\* C4: a run whose orchestrator has been started eventually has status
\* completed or failed and keeps a terminal status from then on, for every
\* stored step graph, on_failure policy and pattern of raised exceptions
C4_RunTerminates == [](OrchStarted => <>[](RunStatus \in Terminal))

\* the orchestrator body has raised after at least one step ran, and the
\* catch-all has left the run failed
C4_Witness ==
    /\ orch.pc = "crashed"
    /\ RunStatus = "failed"
    /\ \E j \in DOMAIN jobs : jobs[j].status = "completed"

====
